---- MODULE Spec2Model ----
(***************************************************************************)
(* flip-lld (src/src/main.rs): a linker wrapper.  `main` runs rust-lld     *)
(* once, reads the linked ELF, merges the sections contiguous with `.bss`  *)
(* / `.data`, and while the stack would collide with them re-links with    *)
(* `__ram_start__` and `__stack_top__` overridden, validating each output. *)
(*                                                                         *)
(* The linker and the file system are the environment.  A linker call      *)
(* either fails or succeeds; when it succeeds the output path holds an     *)
(* ELF, something that is no ELF, or nothing the tool can read.  The       *)
(* objects being linked are the same in every pass, so a re-link lays out  *)
(* the sections of the first pass again: each one at any address of the    *)
(* grid, or discarded.  Every section has a name, no two sections of a     *)
(* binary overlap, and no section wraps around the end of the address      *)
(* space.                                                                  *)
(***************************************************************************)
EXTENDS Integers, Sequences, FiniteSets, TLC

VARIABLES
    args,             \* env::args().skip(1)
    overflow_checks,  \* the build: "on" panics on u64 overflow, "off" wraps;
                      \* "unknown" until a subtraction first overflows
    pc,               \* "start", "loop" (top of 'link with ok = false), "done"
    result,           \* how main returned
    file,             \* what the output path holds
    first,            \* what the first linker pass wrote (the objects linked)
    merged_sections,  \* the HashSet main validates against and empties
    stack_top,
    address,
    size,
    ok,
    new_boundary,
    invocations,      \* number of rust-lld runs so far
    last_status,      \* exit status of the latest rust-lld run
    linker_args       \* argument vector of the latest rust-lld run

vars == <<args, overflow_checks, pc, result, file, first, merged_sections,
          stack_top, address, size, ok, new_boundary, invocations, last_status,
          linker_args>>

---------------------------------------------------------------------------
\* Bounds of the model.

\* width of an address in bits (u64 in the program)
AddrBits == 16
\* grid addresses are 0, 8, .., 8 * MaxSlot
MaxSlot == 3

Modulus == 2 ^ AddrBits

\* the stack alignment, and the index at which the overrides are inserted
StackAlign == 8
InsertIndex == 2

NoAddr == -1

---------------------------------------------------------------------------
\* Arguments

Arg(t) == [text |-> t, val |-> 0]

\* format!("--defsym=<sym>={}", v): the number stays a number
DefSym(sym, v) == [text |-> sym, val |-> v]

IsOverride(a) == a.text \in {"--defsym=__ram_start__=", "--defsym=__stack_top__="}

ArgVectors ==
    { <<Arg("-flavor"), Arg("gnu"), Arg("-o"), Arg("out"), Arg("a.o")>>,
      <<Arg("-o"), Arg("out")>>,
      <<Arg("-flavor"), Arg("gnu"), Arg("-o")>>,
      <<Arg("a.o")>> }

RECURSIVE ScanO(_, _)
ScanO(a, i) ==
    IF i > Len(a) THEN ""
    ELSE IF a[i].text = "-o"
         THEN IF i + 1 <= Len(a) THEN a[i + 1].text ELSE ""
         ELSE ScanO(a, i + 1)

\* the value of the `-o` flag, "" when there is none
get_o_value(a) == ScanO(a, 1)

\* Vec::insert(i, x), i counted from 0
VecInsert(v, i, x) == SubSeq(v, 1, i) \o <<x>> \o SubSeq(v, i + 1, Len(v))

\* RelinkArgs with the overrides put in front of every argument
RelinkArgsAtFront(a, boundary) ==
    <<DefSym("--defsym=__stack_top__=", boundary),
      DefSym("--defsym=__ram_start__=", boundary)>> \o a

\* new_args of one pass of 'link
RelinkArgs(a, boundary) ==
    VecInsert(VecInsert(a, InsertIndex, DefSym("--defsym=__ram_start__=", boundary)),
              InsertIndex, DefSym("--defsym=__stack_top__=", boundary))

---------------------------------------------------------------------------
\* Files

Names == {".text", ".data", ".bss"}
Sizes == {4, 8}
Aligns == {4}
GridAddrs == {8 * i : i \in 0..MaxSlot}
StackTops == {8 * i : i \in 1..MaxSlot}

Section(n, a, s, al) == [name |-> n, addr |-> a, size |-> s, align |-> al]
Symbol(n, v) == [name |-> n, value |-> v]

NoFile == [kind |-> "none", secs |-> <<>>, syms |-> <<>>]
Corrupt == [kind |-> "corrupt", secs |-> <<>>, syms |-> <<>>]
Elf(secs, syms) == [kind |-> "elf", secs |-> secs, syms |-> syms]

GridSections == { Section(n, a, s, al) : n \in Names, a \in GridAddrs, s \in Sizes, al \in Aligns }

Disjoint(s, t) == s.addr + s.size <= t.addr \/ t.addr + t.size <= s.addr

\* no two sections of the list overlap
Laid(secs) ==
    \A i, j \in 1..Len(secs) : i < j => Disjoint(secs[i], secs[j])

GridSectionLists ==
    {<<>>} \cup { <<s>> : s \in GridSections }
           \cup { <<p[1], p[2]>> : p \in { q \in GridSections \X GridSections :
                                                /\ q[1].name # q[2].name
                                                /\ Disjoint(q[1], q[2]) } }

GridSymbolLists == {<<>>} \cup { <<Symbol("__stack_top__", t)>> : t \in StackTops }

\* the scenario of the specification: .data [0x2000, 0x2100), .bss [0x2100, 0x2300),
\* __stack_top__ = 0x2400
ScenarioElf ==
    Elf(<<Section(".data", 8192, 256, 8), Section(".bss", 8448, 512, 8)>>,
        <<Symbol("__stack_top__", 9216)>>)
ScenarioAddrs == {8192, 8448, 8704, 8960}

FirstOutputs ==
    { Elf(secs, syms) : secs \in GridSectionLists, syms \in GridSymbolLists }
        \cup {ScenarioElf, Corrupt, NoFile}

AddrsFor(f) == IF f = ScenarioElf THEN ScenarioAddrs ELSE GridAddrs

\* a section the re-link discards
Omit == NoAddr

RECURSIVE Place(_, _, _)
\* the sections of `secs` from index i on, each at the address `at` gives it
Place(secs, at, i) ==
    IF i > Len(secs) THEN <<>>
    ELSE IF at[i] = Omit THEN Place(secs, at, i + 1)
         ELSE <<[secs[i] EXCEPT !.addr = at[i]]>> \o Place(secs, at, i + 1)

\* what a successful re-link with both symbols defined as `boundary` may write
RelinkOutputs(f, boundary) ==
    { Elf(Place(f.secs, at, 1), <<Symbol("__stack_top__", boundary)>>) :
        at \in { a \in [1..Len(f.secs) -> AddrsFor(f) \cup {Omit}] :
                    Laid(Place(f.secs, a, 1)) } }
        \cup {Corrupt, NoFile}

---------------------------------------------------------------------------
\* get_boundaries

RECURSIVE InsertByAddr(_, _)
InsertByAddr(s, sorted) ==
    IF sorted = <<>> \/ s.addr <= Head(sorted).addr
    THEN <<s>> \o sorted
    ELSE <<Head(sorted)>> \o InsertByAddr(s, Tail(sorted))

RECURSIVE SortByAddr(_)
\* sort_by_key(|sect| sect.sh_addr): stable
SortByAddr(secs) ==
    IF secs = <<>> THEN <<>> ELSE InsertByAddr(Head(secs), SortByAddr(Tail(secs)))

IsAnchorName(n) == n = ".bss" \/ n = ".data"

\* AnchorIndex that falls back to the first section instead of None
AnchorIndexOrFirst(sections) ==
    IF \E i \in 1..Len(sections) : IsAnchorName(sections[i].name)
    THEN CHOOSE i \in 1..Len(sections) :
            /\ IsAnchorName(sections[i].name)
            /\ \A j \in 1..(i - 1) : ~IsAnchorName(sections[j].name)
    ELSE IF sections = <<>> THEN 0 ELSE 1

\* position of the first `.bss` or `.data`, 0 for None
AnchorIndex(sections) ==
    IF \E i \in 1..Len(sections) : IsAnchorName(sections[i].name)
    THEN CHOOSE i \in 1..Len(sections) :
            /\ IsAnchorName(sections[i].name)
            /\ \A j \in 1..(i - 1) : ~IsAnchorName(sections[j].name)
    ELSE 0

RECURSIVE MaxOver(_, _)
MaxOver(sections, i) ==
    IF i > Len(sections) THEN 0
    ELSE LET m == MaxOver(sections, i + 1)
         IN  IF sections[i].align > m THEN sections[i].align ELSE m

MaxAlign(sections) == IF sections = <<>> THEN 1 ELSE MaxOver(sections, 1)

Region(st, sz, names) == [start |-> st, total_size |-> sz, names |-> names]

RECURSIVE GrowBackwardsStrict(_, _, _, _)
\* GrowBackwards that wants the gap strictly below max_align
GrowBackwardsStrict(sections, i, max_align, r) ==
    IF i < 1 THEN r
    ELSE LET sect == sections[i]
             end == sect.addr + sect.size
         IN  IF end <= r.start /\ r.start - end < max_align
             THEN GrowBackwardsStrict(sections, i - 1, max_align,
                                      Region(sect.addr, r.total_size + sect.size,
                                             r.names \cup {sect.name}))
             ELSE r

RECURSIVE GrowBackwards(_, _, _, _)
\* sections[..index].iter().rev(), i the next one to look at
GrowBackwards(sections, i, max_align, r) ==
    IF i < 1 THEN r
    ELSE LET sect == sections[i]
             end == sect.addr + sect.size
         IN  IF end <= r.start /\ r.start - end <= max_align
             THEN GrowBackwards(sections, i - 1, max_align,
                                Region(sect.addr, r.total_size + sect.size,
                                       r.names \cup {sect.name}))
             ELSE r

RECURSIVE GrowForwards(_, _, _, _)
\* sections[index..].iter().skip(1), i the next one to look at
GrowForwards(sections, i, max_align, r) ==
    IF i > Len(sections) THEN r
    ELSE LET sect == sections[i]
         IN  IF /\ r.start + r.total_size <= sect.addr
                /\ sect.addr - (r.start + r.total_size) <= max_align
             THEN GrowForwards(sections, i + 1, max_align,
                               Region(r.start, r.total_size + sect.size,
                                      r.names \cup {sect.name}))
             ELSE r

\* the merged region around the anchor at `index` of the sorted sections
Merge(sections, index) ==
    LET sect == sections[index]
        max_align == MaxAlign(sections)
        seed == Region(sect.addr, sect.size, {sect.name})
    IN  GrowForwards(sections, index + 1, max_align,
                     GrowBackwards(sections, index - 1, max_align, seed))

\* value of the first symbol named __stack_top__, NoAddr for None
StackTopOf(syms) ==
    IF \E i \in 1..Len(syms) : syms[i].name = "__stack_top__"
    THEN syms[CHOOSE i \in 1..Len(syms) :
                /\ syms[i].name = "__stack_top__"
                /\ \A j \in 1..(i - 1) : syms[j].name # "__stack_top__"].value
    ELSE NoAddr

Boundaries(err, names, a, sz, st) ==
    [err |-> err, merged_sections |-> names, address |-> a, size |-> sz, stack_top |-> st]

get_boundaries(f) ==
    IF f.kind = "none" THEN Boundaries("io", {}, 0, 0, 0)
    ELSE IF f.kind = "corrupt" THEN Boundaries("decode", {}, 0, 0, 0)
    ELSE LET sections == SortByAddr(f.secs)
             index == AnchorIndex(sections)
         IN  IF index = 0 THEN Boundaries("no_anchor", {}, 0, 0, 0)
             ELSE IF StackTopOf(f.syms) = NoAddr THEN Boundaries("no_stack_top", {}, 0, 0, 0)
             ELSE LET r == Merge(sections, index)
                  IN  Boundaries("", r.names, r.start, r.total_size, StackTopOf(f.syms))

---------------------------------------------------------------------------
\* main

\* u64 `a - b`: when a < b the build decides between a panic and wrapping
Underflows(a, b) == a < b
WrappingSub(a, b) == (a - b) % Modulus

\* the builds a run that has got this far can be; one that has wrapped is "off"
Builds(known, underflow) ==
    IF underflow /\ known = "unknown" THEN {"on", "off"} ELSE {known}

\* AlignDown that rounds to the next multiple instead
AlignUp(boundary) ==
    IF boundary % StackAlign = 0 THEN boundary
    ELSE boundary + (StackAlign - (boundary % StackAlign))

\* lines 38-41
AlignDown(boundary) == boundary - (boundary % StackAlign)

Outcome(k, remaining, shift) == [kind |-> k, remaining |-> remaining, shift |-> shift]

RECURSIVE ValidateKeeps(_, _, _, _, _)
\* Validate that puts the name back when the section ends above stack_top
ValidateKeeps(secs, i, remaining, boundary, top) ==
    IF i > Len(secs) THEN Outcome("end", remaining, 0)
    ELSE LET sh == secs[i]
             start == sh.addr
             end == start + sh.size
         IN  IF sh.name \in remaining
             THEN IF start < boundary
                  THEN Outcome("fatal", remaining \ {sh.name}, 0)
                  ELSE IF end > top
                       THEN Outcome("retry", remaining, end - top)
                       ELSE ValidateKeeps(secs, i + 1, remaining \ {sh.name}, boundary, top)
             ELSE ValidateKeeps(secs, i + 1, remaining, boundary, top)

RECURSIVE Validate(_, _, _, _, _)
\* the `for sh in elf.section_headers` loop from section i on: "fatal" for the
\* break, "retry" for `continue 'link` (shift = end - stack_top), "end" when the
\* loop runs out
Validate(secs, i, remaining, boundary, top) ==
    IF i > Len(secs) THEN Outcome("end", remaining, 0)
    ELSE LET sh == secs[i]
             start == sh.addr
             end == start + sh.size
         IN  IF sh.name \in remaining
             THEN IF start < boundary
                  THEN Outcome("fatal", remaining \ {sh.name}, 0)
                  ELSE IF end > top
                       THEN Outcome("retry", remaining \ {sh.name}, end - top)
                       ELSE Validate(secs, i + 1, remaining \ {sh.name}, boundary, top)
             ELSE Validate(secs, i + 1, remaining, boundary, top)

Init ==
    /\ args \in ArgVectors
    /\ overflow_checks = "unknown"
    /\ pc = "start"
    /\ result = "running"
    /\ file = NoFile
    /\ first = NoFile
    /\ merged_sections = {}
    /\ stack_top = 0
    /\ address = 0
    /\ size = 0
    /\ ok = FALSE
    /\ new_boundary = 0
    /\ invocations = 0
    /\ last_status = "none"
    /\ linker_args = <<>>

\* lines 19-21: the first rust-lld run exits non-zero
FirstLinkFails ==
    /\ invocations' = invocations + 1
    /\ linker_args' = args
    /\ last_status' = "failure"
    /\ pc' = "done"
    /\ result' = "err_first_link"
    /\ UNCHANGED <<args, overflow_checks, file, first, merged_sections,
                   stack_top, address, size, ok, new_boundary>>

\* lines 19-30: the first rust-lld run succeeds and leaves `out`, and
\* get_o_value or get_boundaries returns an error
FirstPassError(out) ==
    /\ get_o_value(args) = "" \/ get_boundaries(out).err # ""
    /\ invocations' = invocations + 1
    /\ linker_args' = args
    /\ last_status' = "success"
    /\ file' = out
    /\ first' = out
    /\ pc' = "done"
    /\ result' = IF get_o_value(args) = "" THEN "err_no_o"
                 ELSE "err_" \o get_boundaries(out).err
    /\ UNCHANGED <<args, overflow_checks, merged_sections, stack_top, address,
                   size, ok, new_boundary>>

\* lines 19-35: the first rust-lld run succeeds and leaves `out`; main reads the
\* boundaries, computes ok and new_boundary and reaches the head of 'link
FirstPass(out, build) ==
    /\ get_o_value(args) # ""
    /\ LET b == get_boundaries(out)
       IN  /\ b.err = ""
           /\ build \in Builds(overflow_checks, Underflows(b.stack_top, b.size))
           /\ merged_sections' = b.merged_sections
           /\ stack_top' = b.stack_top
           /\ address' = b.address
           /\ size' = b.size
           /\ ok' = (b.stack_top <= b.address + b.size)
           /\ IF Underflows(b.stack_top, b.size) /\ build = "on"
              THEN /\ pc' = "done"
                   /\ result' = "panic"
                   /\ new_boundary' = new_boundary
              ELSE /\ new_boundary' = WrappingSub(b.stack_top, b.size)
                   /\ pc' = IF ok' THEN "done" ELSE "loop"
                   /\ result' = IF ok' THEN "ok" ELSE "running"
    /\ overflow_checks' = build
    /\ invocations' = invocations + 1
    /\ linker_args' = args
    /\ last_status' = "success"
    /\ file' = out
    /\ first' = out
    /\ UNCHANGED args

\* RelinkFails that ignores the exit status and goes round the loop again
RelinkFailsIgnored(left) ==
    /\ invocations' = invocations + 1
    /\ new_boundary' = AlignDown(new_boundary)
    /\ linker_args' = RelinkArgs(args, new_boundary')
    /\ last_status' = "failure"
    /\ file' = left
    /\ pc' = "loop"
    /\ result' = "running"
    /\ UNCHANGED <<args, overflow_checks, first, merged_sections, stack_top,
                   address, size, ok>>

\* lines 38-53: a pass of 'link whose rust-lld run exits non-zero; the linker
\* may have removed the previous output
RelinkFails(left) ==
    /\ invocations' = invocations + 1
    /\ new_boundary' = AlignDown(new_boundary)
    /\ linker_args' = RelinkArgs(args, new_boundary')
    /\ last_status' = "failure"
    /\ file' = left
    /\ pc' = "done"
    /\ result' = "err_relink"
    /\ UNCHANGED <<args, overflow_checks, first, merged_sections, stack_top,
                   address, size, ok>>

\* lines 38-57: a pass of 'link whose rust-lld run succeeds, and the output
\* cannot be read or is no ELF
RelinkUnreadable(out) ==
    /\ out.kind # "elf"
    /\ invocations' = invocations + 1
    /\ new_boundary' = AlignDown(new_boundary)
    /\ linker_args' = RelinkArgs(args, new_boundary')
    /\ last_status' = "success"
    /\ file' = out
    /\ pc' = "done"
    /\ result' = IF out.kind = "none" THEN "err_io" ELSE "err_decode"
    /\ UNCHANGED <<args, overflow_checks, first, merged_sections, stack_top,
                   address, size, ok>>

\* RelinkPass that reads the boundaries again from the binary it has just linked
RelinkPassRereads(out, build) ==
    /\ out.kind = "elf"
    /\ LET boundary == AlignDown(new_boundary)
           b == get_boundaries(out)
           top == IF b.err = "" THEN b.stack_top ELSE stack_top
           v == Validate(out.secs, 1, merged_sections, boundary, top)
           underflow == v.kind = "retry" /\ Underflows(boundary, v.shift)
       IN  /\ build \in Builds(overflow_checks, underflow)
           /\ linker_args' = RelinkArgs(args, boundary)
           /\ merged_sections' = v.remaining
           /\ stack_top' = top
           /\ address' = IF b.err = "" THEN b.address ELSE address
           /\ size' = IF b.err = "" THEN b.size ELSE size
           /\ IF v.kind = "retry"
              THEN /\ ok' = FALSE
                   /\ file' = out
                   /\ IF underflow /\ build = "on"
                      THEN /\ pc' = "done"
                           /\ result' = "panic"
                           /\ new_boundary' = boundary
                      ELSE /\ pc' = "loop"
                           /\ result' = "running"
                           /\ new_boundary' = WrappingSub(boundary, v.shift)
              ELSE /\ ok' = TRUE
                   /\ new_boundary' = boundary
                   /\ pc' = "done"
                   /\ IF v.kind = "fatal" \/ v.remaining # {}
                      THEN /\ result' = "err_fatal"
                           /\ file' = NoFile
                      ELSE /\ result' = "ok"
                           /\ file' = out
    /\ overflow_checks' = build
    /\ invocations' = invocations + 1
    /\ last_status' = "success"
    /\ UNCHANGED <<args, first>>

\* lines 38-105: a pass of 'link whose rust-lld run succeeds and leaves the ELF
\* `out`, which main validates
RelinkPass(out, build) ==
    /\ out.kind = "elf"
    /\ LET boundary == AlignDown(new_boundary)
           v == Validate(out.secs, 1, merged_sections, boundary, stack_top)
           underflow == v.kind = "retry" /\ Underflows(boundary, v.shift)
       IN  /\ build \in Builds(overflow_checks, underflow)
           /\ linker_args' = RelinkArgs(args, boundary)
           /\ merged_sections' = v.remaining
           /\ IF v.kind = "retry"
              THEN /\ ok' = FALSE
                   /\ file' = out
                   /\ IF underflow /\ build = "on"
                      THEN /\ pc' = "done"
                           /\ result' = "panic"
                           /\ new_boundary' = boundary
                      ELSE /\ pc' = "loop"
                           /\ result' = "running"
                           /\ new_boundary' = WrappingSub(boundary, v.shift)
              ELSE /\ ok' = TRUE
                   /\ new_boundary' = boundary
                   /\ pc' = "done"
                   /\ IF v.kind = "fatal" \/ v.remaining # {}
                      THEN /\ result' = "err_fatal"
                           /\ file' = NoFile
                      ELSE /\ result' = "ok"
                           /\ file' = out
    /\ overflow_checks' = build
    /\ invocations' = invocations + 1
    /\ last_status' = "success"
    /\ UNCHANGED <<args, first, stack_top, address, size>>

BuildKinds == {"unknown", "on", "off"}

Next ==
    \/ pc = "start" /\ FirstLinkFails
    \/ pc = "start" /\ \E out \in FirstOutputs : FirstPassError(out)
    \/ pc = "start" /\ \E out \in FirstOutputs, build \in BuildKinds : FirstPass(out, build)
    \/ pc = "loop" /\ \E left \in {file, NoFile} : RelinkFails(left)
    \/ pc = "loop" /\ \E out \in RelinkOutputs(first, AlignDown(new_boundary)) :
                         RelinkUnreadable(out)
    \/ pc = "loop" /\ \E out \in RelinkOutputs(first, AlignDown(new_boundary)),
                         build \in BuildKinds : RelinkPass(out, build)

Spec == Init /\ [][Next]_vars

---------------------------------------------------------------------------
\* get_boundaries on its own: any list of up to three sections with distinct
\* names, gaps and overlaps included, and the alignments differing

\* merge-grid addresses are 0, 4, .., 4 * MergeSlots
MergeSlots == 4

MergeAddrs == {4 * i : i \in 0..MergeSlots}
MergeAligns == {1, 4}

\* the names in the order of the section header table; `.uninit` is a second
\* name that is no anchor, so that an anchor can have two predecessors
MergeNames == <<".text", ".data", ".bss", ".uninit">>

\* address, size and alignment of one section
MergeShapes == MergeAddrs \X Sizes \X MergeAligns

MergeSection(n, x) == Section(MergeNames[n], x[1], x[2], x[3])

\* one, two or three sections with distinct names
MergeSectionLists ==
    LET N == 1..Len(MergeNames)
    IN  { <<MergeSection(i, x)>> : i \in N, x \in MergeShapes }
            \cup { <<MergeSection(p[1], x), MergeSection(p[2], y)>> :
                      p \in { q \in N \X N : q[1] < q[2] },
                      x \in MergeShapes, y \in MergeShapes }
            \cup { <<MergeSection(p[1], x), MergeSection(p[2], y), MergeSection(p[3], z)>> :
                      p \in { q \in N \X N \X N : q[1] < q[2] /\ q[2] < q[3] },
                      x \in MergeShapes, y \in MergeShapes, z \in MergeShapes }

MergeInputs ==
    { Elf(secs, <<Symbol("__stack_top__", 4 * MergeSlots)>>) : secs \in MergeSectionLists }

MergeInit ==
    /\ args = <<Arg("-o"), Arg("out")>>
    /\ overflow_checks = "unknown"
    /\ pc = "start"
    /\ result = "running"
    /\ first \in MergeInputs
    /\ file = first
    /\ merged_sections = {}
    /\ stack_top = 0
    /\ address = 0
    /\ size = 0
    /\ ok = FALSE
    /\ new_boundary = 0
    /\ invocations = 1
    /\ last_status = "success"
    /\ linker_args = args

\* line 30: get_boundaries(&output) on the file of the first pass
ReadBoundaries ==
    /\ pc = "start"
    /\ LET b == get_boundaries(file)
       IN  /\ result' = IF b.err = "" THEN "ok" ELSE "err_" \o b.err
           /\ merged_sections' = b.merged_sections
           /\ stack_top' = b.stack_top
           /\ address' = b.address
           /\ size' = b.size
    /\ pc' = "done"
    /\ UNCHANGED <<args, overflow_checks, file, first, ok, new_boundary,
                   invocations, last_status, linker_args>>

MergeSpec == MergeInit /\ [][ReadBoundaries]_vars

---------------------------------------------------------------------------
\* Properties

\* the section names the first pass accepted into the merged region
Accepted == get_boundaries(first).merged_sections

NamesOf(f) == { f.secs[i].name : i \in 1..Len(f.secs) }

\* the addresses the latest linker run was given as overrides
Overrides == { linker_args[i].val : i \in { j \in 1..Len(linker_args) : IsOverride(linker_args[j]) } }

\* the latest linker run was a re-link that succeeded and left an ELF which the
\* validation did not reject as fatal (a fatal pass deletes the file)
ValidatedRelink == invocations >= 2 /\ last_status = "success" /\ file.kind = "elf"

WithinBounds(sect, boundary, top) == sect.addr >= boundary /\ sect.addr + sect.size <= top

\* some accepted section of the file ends above the first-pass stack_top
OverflowSeen ==
    \E i \in 1..Len(file.secs) :
        file.secs[i].name \in Accepted /\ file.secs[i].addr + file.secs[i].size > stack_top

RoundedDown(x) == x - (x % 8)

\* C1: when a run that re-linked at least once returns Ok, every section of the
\* final binary whose name the first pass accepted starts at or above the final
\* candidate and ends at or below the first-pass stack_top.
C1_SuccessMeansAcceptedWithinBounds ==
    (pc = "done" /\ result = "ok" /\ invocations >= 2) =>
        \A i \in 1..Len(file.secs) :
            file.secs[i].name \in Accepted =>
                WithinBounds(file.secs[i], new_boundary, stack_top)

\* C2: when the first-pass binary has an anchor and a __stack_top__ with
\* stack_top <= address + size, the run is over after one linker run, returns Ok
\* and leaves the output as the first pass wrote it.
C2_NoCollisionMeansOnePass ==
    LET b == get_boundaries(first)
    IN  (/\ get_o_value(args) # ""
         /\ b.err = ""
         /\ b.stack_top <= b.address + b.size)
        => (pc = "done" /\ result = "ok" /\ invocations = 1 /\ file = first)

\* C3: every override address handed to the linker is a multiple of 8 and is at
\* most stack_top - size of the first pass.
C3_CandidateAlignedAndLowEnough ==
    invocations >= 2 =>
        \A c \in Overrides : c % 8 = 0 /\ c <= stack_top - size

\* C4: a re-linked binary that lacks an accepted name is always a fatal pass (the
\* file is deleted); so whenever a re-linked ELF is still there after its
\* validation, it has every accepted name.
C4_OmittedSectionIsFatal ==
    ValidatedRelink => Accepted \subseteq NamesOf(file)

\* C5: once the first pass has written something, a finished run either returned
\* Ok with a correctly laid out binary at the output path, or returned one of the
\* errors and the output path is empty.
C5_NoPartialSuccess ==
    (pc = "done" /\ first.kind # "none") =>
        \/ /\ result = "ok"
           /\ file.kind = "elf"
           /\ invocations >= 2 =>
                \A i \in 1..Len(file.secs) :
                    file.secs[i].name \in Accepted =>
                        WithinBounds(file.secs[i], new_boundary, stack_top)
        \/ /\ result \in {"err_relink", "err_io", "err_decode", "err_no_anchor",
                          "err_no_stack_top", "err_fatal"}
           /\ file = NoFile
        \/ result \in {"err_no_o", "panic"}

\* C6 as stated: a re-link gets the two overrides, both with the same address,
\* as its first two arguments, followed by the original arguments.
C6_OverridesBeforeEveryArgument ==
    invocations >= 2 =>
        /\ Len(linker_args) = Len(args) + 2
        /\ {linker_args[1].text, linker_args[2].text}
              = {"--defsym=__ram_start__=", "--defsym=__stack_top__="}
        /\ linker_args[1].val = linker_args[2].val
        /\ SubSeq(linker_args, 3, Len(linker_args)) = args

\* C6 as amended: a re-link gets the original arguments with exactly two
\* arguments inserted after the first two of them, --defsym=__stack_top__=c and
\* then --defsym=__ram_start__=c, c the candidate of that pass; nothing of
\* earlier passes is kept.
C6_OverridesAfterTwoArguments ==
    invocations >= 2 =>
        /\ Len(args) >= 2
        /\ Len(linker_args) = Len(args) + 2
        /\ SubSeq(linker_args, 1, 2) = SubSeq(args, 1, 2)
        /\ linker_args[3].text = "--defsym=__stack_top__="
        /\ linker_args[4].text = "--defsym=__ram_start__="
        /\ linker_args[3].val = linker_args[4].val
        /\ linker_args[3].val % 8 = 0
        /\ pc = "done" => linker_args[3].val = new_boundary
        /\ SubSeq(linker_args, 5, Len(linker_args)) = SubSeq(args, 3, Len(args))

\* a third linker run, with arguments after `-o out`
C6_Witness == invocations >= 3 /\ Len(args) > 2

\* C7: when the first-pass binary has no section named .bss or .data, the run
\* ends with the "linker sections not found" error after exactly one linker run.
C7_NoAnchorNoRelink ==
    (/\ first.kind = "elf"
     /\ get_o_value(args) # ""
     /\ \A i \in 1..Len(first.secs) : first.secs[i].name \notin {".bss", ".data"})
    => (pc = "done" /\ result = "err_no_anchor" /\ invocations = 1)

C7_Witness ==
    /\ result = "err_no_anchor"
    /\ Len(first.secs) = 1
    /\ StackTopOf(first.syms) # NoAddr

\* C8: a linker run that exits non-zero ends the run with an error, no linker run
\* follows it, and a re-link after the first one happens only when the pass before
\* it saw an accepted section end above stack_top.
C8_LinkerFailureIsFinal ==
    [][/\ last_status' = "failure" =>
            (pc' = "done" /\ result' \in {"err_first_link", "err_relink"})
       /\ last_status = "failure" => invocations' = invocations
       /\ (invocations >= 2 /\ invocations' > invocations) =>
            (last_status = "success" /\ ~ok /\ OverflowSeen)]_vars

C8_Witness == last_status = "failure" /\ invocations = 3

\* C9: the first re-link is given stack_top - size rounded down to a multiple of
\* 8; for .data [0x2000, 0x2100), .bss [0x2100, 0x2300), stack_top 0x2400 the
\* merged size is 0x300, the overrides are 0x2100, and a re-linked binary whose
\* sections lie in [0x2100, 0x2400] ends the run with Ok after one re-link.
C9_FirstCandidate ==
    /\ invocations = 2 => Overrides = {RoundedDown(stack_top - size)}
    /\ (first = ScenarioElf /\ invocations >= 1 /\ get_o_value(args) # "") =>
          /\ address = 8192 /\ size = 768 /\ stack_top = 9216
          /\ invocations = 1 => pc = "loop"
          /\ invocations = 2 => Overrides = {8448}
          /\ (/\ invocations = 2
              /\ last_status = "success"
              /\ file.kind = "elf"
              /\ \A i \in 1..Len(file.secs) : WithinBounds(file.secs[i], 8448, 9216))
             => (pc = "done" /\ result = "ok")

C9_Witness ==
    /\ first = ScenarioElf
    /\ result = "ok"
    /\ invocations = 2
    /\ Overrides = {8448}
    /\ NamesOf(file) = {".data", ".bss"}

\* C10: a binary that a run corrected successfully (its __stack_top__ is the
\* final candidate, its accepted sections start at or above it), read again by
\* get_boundaries, shows no collision: stack_top <= address + size.
C10_CorrectedBinaryNeedsNoRelink ==
    (/\ pc = "done" /\ result = "ok" /\ invocations >= 2
     /\ StackTopOf(file.syms) = new_boundary
     /\ \A i \in 1..Len(file.secs) :
            file.secs[i].name \in Accepted => file.secs[i].addr >= new_boundary)
    => LET b == get_boundaries(file)
       IN  b.err = "" => b.stack_top <= b.address + b.size

\* C11: a re-link pass whose binary has an accepted section starting below the
\* candidate handed to that pass always ends fatal with the file deleted; so a
\* re-linked ELF that is still there after its validation, whether the pass
\* ended in a retry or in Ok, has no accepted section below that candidate.
C11_StartBelowCandidateIsFatal ==
    ValidatedRelink =>
        \A c \in Overrides :
            \A i \in 1..Len(file.secs) :
                file.secs[i].name \in Accepted => file.secs[i].addr >= c

\* C12: when a re-link pass finds an accepted section ending above stack_top (and
\* nothing fatal before it), the loop goes round again and the next pass hands
\* the linker the previous candidate minus (end - stack_top), rounded down to a
\* multiple of 8, which is strictly below the previous candidate.
C12_RetryShrinksCandidate ==
    [][ LET prev == AlignDown(new_boundary)
            v == Validate(file'.secs, 1, merged_sections, prev, stack_top)
        IN  (/\ pc = "loop"
             /\ last_status' = "success"
             /\ file'.kind = "elf"
             /\ v.kind = "retry")
            => /\ pc' = "loop"
               /\ AlignDown(new_boundary') = RoundedDown(prev - v.shift)
               /\ AlignDown(new_boundary') < prev ]_vars

\* C13: neither `stack_top - size` after the first pass nor the shrink of the
\* candidate on a retry ever goes below zero; no run gets to the point where the
\* build's treatment of an unsigned underflow (panic or wrap) matters.
C13_CandidateNeverUnderflows ==
    overflow_checks = "unknown" /\ result # "panic"

---------------------------------------------------------------------------
\* Properties of get_boundaries, stated over MergeSpec

\* the first-pass sections in ascending address order
Sorted == SortByAddr(first.secs)

EndOf(sect) == sect.addr + sect.size

Anchor == AnchorIndex(Sorted)

\* the largest alignment of any section of the binary
AllAlign ==
    CHOOSE m \in { Sorted[i].align : i \in 1..Len(Sorted) } :
        \A i \in 1..Len(Sorted) : Sorted[i].align <= m

\* section i ends at or below the start of section i + 1, at most AllAlign below
Linked(i) ==
    /\ EndOf(Sorted[i]) <= Sorted[i + 1].addr
    /\ Sorted[i + 1].addr - EndOf(Sorted[i]) <= AllAlign

\* the lowest section reached from the anchor through linked predecessors
BackStop ==
    CHOOSE j \in 1..Anchor :
        /\ \A i \in j..(Anchor - 1) : Linked(i)
        /\ j = 1 \/ ~Linked(j - 1)

RECURSIVE SumSizes(_, _)
SumSizes(lo, hi) == IF lo > hi THEN 0 ELSE Sorted[lo].size + SumSizes(lo + 1, hi)

Computed == pc = "done" /\ result = "ok"

\* C14: walking down from the anchor, a predecessor is merged exactly when it
\* ends at or below the start of the region so far and at most max_align below
\* it; a merge moves the start to the predecessor's address, adds its size and
\* accepts its name; the walk stops at the first predecessor that does not merge.
C14_BackwardWalk ==
    Computed =>
        LET seed == Region(Sorted[Anchor].addr, Sorted[Anchor].size, {Sorted[Anchor].name})
            back == GrowBackwards(Sorted, Anchor - 1, MaxAlign(Sorted), seed)
        IN  /\ MaxAlign(Sorted) = AllAlign
            /\ back.start = Sorted[BackStop].addr
            /\ back.total_size = SumSizes(BackStop, Anchor)
            /\ back.names = { Sorted[i].name : i \in BackStop..Anchor }
            /\ address = back.start
            /\ back.names \subseteq merged_sections
            /\ \A i \in 1..(BackStop - 1) : Sorted[i].name \notin merged_sections

\* two predecessors, the nearer one merged over a gap of exactly max_align, the
\* farther one not merged
C14_Witness ==
    /\ Computed
    /\ Anchor = 3
    /\ BackStop = 2
    /\ Sorted[3].addr - EndOf(Sorted[2]) = AllAlign
    /\ AllAlign = 4
    /\ address = Sorted[2].addr

\* the highest section reached from the anchor through linked successors
ForwardStop ==
    CHOOSE m \in Anchor..Len(Sorted) :
        /\ \A i \in Anchor..(m - 1) : Linked(i)
        /\ m = Len(Sorted) \/ ~Linked(m)

\* C15: walking up from the anchor, a successor is merged exactly when it starts
\* at or above the end of the last section merged so far and at most max_align
\* above it, whatever the backward walk merged; the walk stops at the first
\* successor that does not merge.
C15_ForwardWalk ==
    Computed =>
        { Sorted[i].name : i \in (Anchor + 1)..Len(Sorted) } \cap merged_sections
            = { Sorted[i].name : i \in (Anchor + 1)..ForwardStop }

\* C16: whenever the section list has an anchor, the accepted set is not empty,
\* holds the name of the first `.bss` or `.data` in address order, and any two
\* accepted sections that are neighbours in address order do not overlap and
\* are at most max_align apart.
C16_RegionIsContiguous ==
    Computed =>
        /\ merged_sections # {}
        /\ Sorted[Anchor].name \in merged_sections
        /\ \A i \in 1..(Len(Sorted) - 1) :
              (Sorted[i].name \in merged_sections /\ Sorted[i + 1].name \in merged_sections)
                  => Linked(i)

---------------------------------------------------------------------------
\* Properties of the loop, stated over Spec

\* C17: the stack_top of the collision check and of every validation pass is the
\* __stack_top__ of the first-pass binary: no pass of the loop changes it, and a
\* pass ends in a retry only when an accepted section of the re-linked binary
\* ends above that first-pass value.
C17_StackTopIsFirstPass ==
    [][ pc = "loop" =>
            /\ stack_top = StackTopOf(first.syms)
            /\ stack_top' = stack_top
            /\ (pc' = "loop" \/ result' = "panic") =>
                  \E i \in 1..Len(file'.secs) :
                      /\ file'.secs[i].name \in Accepted
                      /\ EndOf(file'.secs[i]) > StackTopOf(first.syms) ]_vars

\* a second re-link has been validated; its binary defines __stack_top__ as the
\* candidate, which is not the value the validation used
C17_Witness ==
    /\ ValidatedRelink
    /\ invocations >= 3
    /\ StackTopOf(file.syms) \in Overrides
    /\ StackTopOf(file.syms) # stack_top
    /\ stack_top = StackTopOf(first.syms)

\* C18 as stated: after every validated re-link the region's start and size are
\* those get_boundaries gives for the binary just linked.
C18_RegionRecomputedEachPass ==
    (ValidatedRelink /\ get_boundaries(file).err = "") =>
        /\ address = get_boundaries(file).address
        /\ size = get_boundaries(file).size

\* C18: the merged region is computed once, from the first-pass binary; no pass
\* of the loop changes its start or size, and the set of names only loses the
\* names a pass has looked at.
C18_RegionComputedOnce ==
    [][ pc = "loop" =>
            /\ address = get_boundaries(first).address
            /\ size = get_boundaries(first).size
            /\ merged_sections \subseteq Accepted
            /\ address' = address
            /\ size' = size
            /\ merged_sections' \subseteq merged_sections ]_vars

\* a validated re-link whose binary would give a different region
C18_Witness ==
    /\ ValidatedRelink
    /\ get_boundaries(file).err = ""
    /\ get_boundaries(file).address # address
    /\ address = get_boundaries(first).address
    /\ size = get_boundaries(first).size

\* C19: the loop cannot go on for ever: a pass that ends in a retry takes at
\* least one name out of merged_sections, no pass puts a name in, a pass that
\* starts with the set empty ends the run, and so a run re-links at most
\* (number of accepted names) + 1 times.
C19_LoopIsBounded ==
    [][ pc = "loop" =>
            /\ merged_sections' \subseteq merged_sections
            /\ pc' = "loop" => merged_sections' # merged_sections
            /\ merged_sections = {} => pc' = "done"
            /\ invocations' - 1 <= Cardinality(Accepted) + 1 ]_vars

\* a run that needed every one of the passes the bound allows: two accepted
\* names, two retries and a third re-link
C19_Witness ==
    /\ pc = "done"
    /\ Cardinality(Accepted) = 2
    /\ invocations - 1 = Cardinality(Accepted) + 1
    /\ merged_sections = {}

---------------------------------------------------------------------------
\* C20, stated over MergeSpec

\* C20: the merged region covers every accepted section: none starts below the
\* region's start and none ends above start + size, gaps between accepted
\* sections included.
C20_RegionCoversAccepted ==
    Computed =>
        \A i \in 1..Len(Sorted) :
            Sorted[i].name \in merged_sections =>
                /\ address <= Sorted[i].addr
                /\ EndOf(Sorted[i]) <= address + size

====
